---- MODULE Spec2Model ----
(***************************************************************************)
(* The revision store of whisky (src/main.go, the last and most capable    *)
(* program of the file, lines 284-643): pages are saved as gob payloads    *)
(* under 8-byte big-endian sequence keys, one bolt bucket per title inside *)
(* the top-level bucket "history".                                         *)
(*                                                                         *)
(* bolt itself is a library: its transactions are modelled by what the     *)
(* calls the source makes are documented to do.  db.Update runs its        *)
(* function on a private working copy under the single writer lock and     *)
(* publishes the copy on commit, or drops it when the function or the      *)
(* commit returns an error.  db.View runs its function on the committed    *)
(* state as of its start.  A byte slice bolt hands out is valid only while *)
(* the transaction that returned it is open.                               *)
(***************************************************************************)
EXTENDS Integers, Sequences, FiniteSets, TLC

\* ------------------------------------------------------------- bounds
\* Save requests accepted over one run of the model.
MaxSaves == 3
\* The same where two save requests run at once.
MaxConcSaves == 3
\* Largest page size given to loadHistory directly.
MaxLimit == 2
\* Largest explicit revision number / history start a request names: one more
\* than any Append can have issued.
MaxId == MaxSaves + 1
\* Most revisions of a title in a file found at start.
MaxLeft == 2

\* Page size historyHandler passes to loadHistory.
HistoryPageSize == 20

\* ------------------------------------------------------------- data
Writers == {"w1", "w2"}
NoProc == "none"

\* Titles a request can name; "" is what /save/ alone yields.
BucketTitles == {"A", "B"}
Titles == BucketTitles \cup {""}

Fields == {"Title", "Body", "Created", "Author"}

\* type Page struct { Title string; Body []byte; Created time.Time; Author string }
MkPage(title, body, created, author) ==
    [Title |-> title, Body |-> body, Created |-> created, Author |-> author]

\* &Page{} : every field at its zero value.
ZeroPage == MkPage("", <<>>, 0, "")

IsZeroField(x, f) ==
    CASE f = "Title"   -> x.Title = ""
      [] f = "Body"    -> x.Body = <<>>
      [] f = "Created" -> x.Created = 0
      [] f = "Author"  -> x.Author = ""

\* What the page given to savePage carries besides the title: Body, Created,
\* Author.  savePage stores any *Page; the first is the one whose fields are
\* all at their zero value, the second what saveHandler builds from a request
\* with a body (time.Now(), r.RemoteAddr).
Contents ==
    { [Body |-> <<>>,    Created |-> 0, Author |-> ""],
      [Body |-> <<104>>, Created |-> 1, Author |-> "u"] }

\* ------------------------------------------------------------- document codec
\* gob sends a struct as the list of its fields that are not zero; a field at
\* its zero value is left out of the stream.
SentFields(x) == {f \in Fields : ~IsZeroField(x, f)}

toBytes(x) ==
    [gob |-> TRUE, has |-> SentFields(x),
     val |-> [Title   |-> IF "Title"   \in SentFields(x) THEN x.Title   ELSE "",
              Body    |-> IF "Body"    \in SentFields(x) THEN x.Body    ELSE <<>>,
              Created |-> IF "Created" \in SentFields(x) THEN x.Created ELSE 0,
              Author  |-> IF "Author"  \in SentFields(x) THEN x.Author  ELSE ""]]

\* Bytes that are no gob stream of a Page: Decode returns an error and has
\* stored nothing.
Garbage == [gob |-> FALSE, has |-> {}, val |-> ZeroPage]

\* dec.Decode(x) stores the fields the stream holds into x and leaves the
\* other fields of x as they were; its error is dropped, x then stays as it was.
fromBytes(bs, x) ==
    IF ~bs.gob THEN x
    ELSE [Title   |-> IF "Title"   \in bs.has THEN bs.val.Title   ELSE x.Title,
          Body    |-> IF "Body"    \in bs.has THEN bs.val.Body    ELSE x.Body,
          Created |-> IF "Created" \in bs.has THEN bs.val.Created ELSE x.Created,
          Author  |-> IF "Author"  \in bs.has THEN bs.val.Author  ELSE x.Author]

\* ------------------------------------------------------------- key codec
\* A nil []byte.
Nil == <<>>

\* The 8 big-endian bytes of v, for 0 <= v < 2^31 (the four high bytes are 0).
PutUint64Nat(v) ==
    << 0, 0, 0, 0,
       (v \div 16777216) % 256, (v \div 65536) % 256, (v \div 256) % 256, v % 256 >>

\* binary.BigEndian.PutUint64(idb, uint64(v)) for an int v: a negative v
\* converts to 2^64 + v, whose bytes are the complements of those of -v-1.
PutUint64(v) ==
    IF v >= 0 THEN PutUint64Nat(v)
    ELSE [i \in 1..8 |-> 255 - PutUint64Nat(-v - 1)[i]]

byteID(id) == PutUint64(id)

\* int(binary.BigEndian.Uint64(k)) for the keys whose value fits 31 bits.
Uint64(k) == k[5] * 16777216 + k[6] * 65536 + k[7] * 256 + k[8]

\* bytes.Compare: lexicographic, a proper prefix (and nil) sorts first.
RECURSIVE CompareFrom(_, _, _)
CompareFrom(a, b, i) ==
    IF i > Len(a) /\ i > Len(b) THEN 0
    ELSE IF i > Len(a) THEN -1
    ELSE IF i > Len(b) THEN 1
    ELSE IF a[i] < b[i] THEN -1
    ELSE IF a[i] > b[i] THEN 1
    ELSE CompareFrom(a, b, i + 1)

bytesCompare(a, b) == CompareFrom(a, b, 1)

\* ------------------------------------------------------------- bolt buckets
\* A bucket: whether it exists, its NextSequence counter, its key/value pairs.
NoBucket == [exists |-> FALSE, sequence |-> 0, kv |-> <<>>]
NewBucket == [exists |-> TRUE, sequence |-> 0, kv |-> <<>>]

\* The file: the top-level bucket "history" and its sub-buckets by title.
EmptyStore == [hist |-> FALSE, b |-> [t \in BucketTitles |-> NoBucket]]

\* Mutant of SubBucket: the title is not looked at, any bucket there is serves.
SubBucketAnyTitle(s, title) ==
    IF \E t \in BucketTitles : s.b[t].exists
    THEN s.b[CHOOSE t \in BucketTitles : s.b[t].exists]
    ELSE NoBucket

\* tx.Bucket([]byte("history")).Bucket([]byte(title)); nil is NoBucket.
SubBucket(s, title) ==
    IF title \in BucketTitles /\ s.b[title].exists THEN s.b[title] ELSE NoBucket

Keys(b) == DOMAIN b.kv

\* Mutant of CursorLast: Cursor.First, the other end of the bucket.
CursorFirst(b) ==
    IF Keys(b) = {} THEN Nil
    ELSE CHOOSE k \in Keys(b) : \A j \in Keys(b) : bytesCompare(j, k) >= 0

\* Cursor.Last: the greatest key in byte order, nil in an empty bucket.
CursorLast(b) ==
    IF Keys(b) = {} THEN Nil
    ELSE CHOOSE k \in Keys(b) : \A j \in Keys(b) : bytesCompare(j, k) <= 0

\* Mutant of CursorSeek: the first key after seek, never seek itself.
CursorSeekAfter(b, seek) ==
    LET gt == {k \in Keys(b) : bytesCompare(k, seek) > 0}
    IN  IF gt = {} THEN Nil
        ELSE CHOOSE k \in gt : \A j \in gt : bytesCompare(k, j) <= 0

\* Cursor.Seek: the first key at or after seek, nil when there is none.
CursorSeek(b, seek) ==
    LET ge == {k \in Keys(b) : bytesCompare(k, seek) >= 0}
    IN  IF ge = {} THEN Nil
        ELSE CHOOSE k \in ge : \A j \in ge : bytesCompare(k, j) <= 0

\* Cursor.Prev from key k: the greatest key before k, nil at the start.
CursorPrev(b, k) ==
    LET lt == {j \in Keys(b) : bytesCompare(j, k) < 0}
    IN  IF lt = {} THEN Nil
        ELSE CHOOSE j \in lt : \A i \in lt : bytesCompare(i, j) <= 0

\* Mutant of BucketGet: a missing key gives the value under the last key.
BucketGetNearest(b, key) ==
    IF key \in Keys(b) THEN [found |-> TRUE, key |-> key, bytes |-> b.kv[key]]
    ELSE IF Keys(b) = {} THEN [found |-> FALSE, key |-> Nil, bytes |-> Garbage]
    ELSE [found |-> TRUE, key |-> CursorLast(b), bytes |-> b.kv[CursorLast(b)]]

\* Bucket.Get: the value under key, nil (found = FALSE) when absent.
BucketGet(b, key) ==
    IF key \in Keys(b) THEN [found |-> TRUE, key |-> key, bytes |-> b.kv[key]]
    ELSE [found |-> FALSE, key |-> Nil, bytes |-> Garbage]

\* Bucket.Put
BucketPut(b, key, value) ==
    [b EXCEPT !.kv = [k \in Keys(b) \cup {key} |-> IF k = key THEN value ELSE b.kv[k]]]

\* ------------------------------------------------------------- reads
\* Mutant of loadPageRevView: id 0 is looked up like any other id.
loadPageRevViewNoLatest(s, title, id) ==
    LET b == SubBucket(s, title)
        got == BucketGet(b, byteID(id))
    IN  IF ~b.exists THEN [err |-> TRUE, key |-> Nil, pageBytes |-> Garbage]
        ELSE [err |-> ~got.found, key |-> got.key, pageBytes |-> got.bytes]

\* The db.View of loadPageRev on store s: no error and the value found, or
\* the error "page not exists".  key tells which entry the value came from.
loadPageRevView(s, title, id) ==
    LET b == SubBucket(s, title)
        last == CursorLast(b)
        got == IF id = 0
               THEN (IF last = Nil THEN BucketGet(b, Nil) ELSE BucketGet(b, last))
               ELSE BucketGet(b, byteID(id))
    IN  IF ~b.exists THEN [err |-> TRUE, key |-> Nil, pageBytes |-> Garbage]
        ELSE [err |-> ~got.found, key |-> got.key, pageBytes |-> got.bytes]

\* The request-wide variable p of loadHistory is decoded into again for every
\* entry; each Revision takes Created and Author from p after that decode.
RECURSIVE HistoryWalk(_, _, _, _, _, _)
HistoryWalk(b, k, i, n, p, revs) ==
    IF k = Nil \/ i >= n THEN revs
    ELSE LET q == fromBytes(b.kv[k], p)
         IN  HistoryWalk(b, CursorPrev(b, k), i + 1, n, q,
                         Append(revs, [Num |-> Uint64(k), Created |-> q.Created,
                                       Author |-> q.Author]))

\* Mutant of HistoryStart: the key Seek lands on is taken as it is.
HistoryStartSnap(b, from) ==
    IF from = -1 THEN CursorLast(b) ELSE CursorSeek(b, PutUint64(from))

\* The first key of the page: the last key when from is -1, else the key Seek
\* lands on when it is the key of from itself; nil gives "page not exists".
HistoryStart(b, from) ==
    IF from = -1 THEN CursorLast(b)
    ELSE IF bytesCompare(CursorSeek(b, PutUint64(from)), PutUint64(from)) # 0 THEN Nil
    ELSE CursorSeek(b, PutUint64(from))

\* loadHistory(title, from, n) on store s.
loadHistory(s, title, from, n) ==
    LET b == SubBucket(s, title)
        k == HistoryStart(b, from)
    IN  IF ~b.exists \/ k = Nil THEN [err |-> TRUE, Revs |-> <<>>]
        ELSE [err |-> FALSE, Revs |-> HistoryWalk(b, k, 0, n, ZeroPage, <<>>)]

\* ------------------------------------------------------------- state
VARIABLES
    mainpc,    \* main: "boot" before the bootstrap transaction, "serve" after
    db,        \* the committed store (the file whisky.db)
    wlock,     \* holder of bolt's writer lock, NoProc when free
    wr,        \* per save request in flight: its position and locals
    rd,        \* the reading client's request: idle, or a view between db.View and fromBytes
    resp,      \* the answer the last step gave to a request, until it is taken
    appended,  \* history: per title, the pages of the Appends that returned nil
    nsaves     \* save requests accepted so far

vars == <<mainpc, db, wlock, wr, rd, resp, appended, nsaves>>

IdleWriter ==
    [pc |-> "idle", title |-> "", page |-> ZeroPage, pageBytes |-> Garbage,
     id |-> 0, tx |-> EmptyStore, ret |-> "none", waited |-> FALSE]

IdleReader ==
    [pc |-> "idle", title |-> "", rev |-> -1, id |-> 0, key |-> Nil,
     pageBytes |-> Garbage, stale |-> FALSE, at |-> 0]

\* A response: the request (op, title, arg, n), whether and with which id the
\* store was called, the answer (kind, page, Revs), and for the history
\* variables the key the store read and how many Appends had committed then;
\* for a save, whether it waited for the writer lock longer than Options.Timeout.
NoResp ==
    [op |-> "none", title |-> "", arg |-> 0, n |-> 0, called |-> FALSE, id |-> 0,
     kind |-> "none", page |-> ZeroPage, Revs |-> <<>>, key |-> Nil, at |-> 0,
     stale |-> FALSE, waited |-> FALSE]

\* Encodings of the rev query parameter besides a number: absent, not a number.
RevAbsent == -1
RevUnparseable == -2

Init ==
    /\ mainpc = "boot"
    /\ db = EmptyStore
    /\ wlock = NoProc
    /\ wr = [p \in Writers |-> IdleWriter]
    /\ rd = IdleReader
    /\ resp = NoResp
    /\ appended = [t \in BucketTitles |-> <<>>]
    /\ nsaves = 0

\* No answer is waiting to be taken.  A step is taken only then, so that every
\* answer is seen against the state that produced it.
Quiet == resp = NoResp

\* ------------------------------------------------------------- bootstrap
\* Mutant of bootstrapTx: the bucket "history" is made anew.
bootstrapTxRecreate(s) == [EmptyStore EXCEPT !.hist = TRUE]

\* The function main passes to db.Update: tx.CreateBucketIfNotExists of
\* "history", which leaves a bucket that is there as it is.
bootstrapTx(s) == [s EXCEPT !.hist = TRUE]

\* main: db.Update creating the bucket "history" if it does not exist; main
\* goes on to serve.  called tells whether the bucket was there already.
Bootstrap ==
    /\ Quiet
    /\ mainpc = "boot"
    /\ db' = bootstrapTx(db)
    /\ mainpc' = "serve"
    /\ resp' = [NoResp EXCEPT !.op = "boot", !.called = db.hist, !.kind = "ok"]
    /\ UNCHANGED <<wlock, wr, rd, appended, nsaves>>

\* The process ends (killed, or log.Fatal) and main runs again on the same
\* file: requests in flight and an open write transaction are lost.
Restart ==
    /\ Quiet
    /\ mainpc = "serve"
    /\ mainpc' = "boot"
    /\ wlock' = NoProc
    /\ wr' = [p \in Writers |-> IdleWriter]
    /\ rd' = IdleReader
    /\ UNCHANGED <<db, appended, nsaves, resp>>

\* ------------------------------------------------------------- Append
\* saveHandler builds the page and savePage encodes it, before db.Update.
SaveHandler(p, title, c) ==
    /\ Quiet
    /\ mainpc = "serve"
    /\ wr[p].pc = "idle"
    /\ nsaves' = nsaves + 1
    /\ LET page == MkPage(title, c.Body, c.Created, c.Author)
       IN  wr' = [wr EXCEPT ![p] = [IdleWriter EXCEPT !.pc = "update", !.title = title,
                                    !.page = page, !.pageBytes = toBytes(page)]]
    /\ UNCHANGED <<mainpc, db, wlock, rd, appended, resp>>

\* Mutant of NextSequence: the counter advances by two.
NextSequenceSkips(seq) == seq + 2

\* Mutant of NextSequence: the counter is not advanced past 1.
NextSequenceStuck(seq) == 1

\* id, _ := b.NextSequence(): the counter of the bucket, plus one.
NextSequence(seq) == seq + 1

\* Mutant of savePageTx: one counter serves every title, each bucket's
\* counter follows the number drawn.
savePageTxSharedCounter(s, title, pageBytes, putFails) ==
    IF title = "" THEN [err |-> TRUE, s |-> s, id |-> 0]
    ELSE LET s1 == [s EXCEPT !.b[title] = IF @.exists THEN @ ELSE NewBucket]
             id == NextSequence(s1.b[title].sequence)
             s2 == [s1 EXCEPT !.b = [t \in BucketTitles |->
                                       IF s1.b[t].exists
                                       THEN [s1.b[t] EXCEPT !.sequence = id]
                                       ELSE s1.b[t]]]
             s3 == [s2 EXCEPT !.b[title] = BucketPut(@, byteID(id), pageBytes)]
         IN  IF putFails THEN [err |-> TRUE, s |-> s2, id |-> id]
             ELSE [err |-> FALSE, s |-> s3, id |-> id]

\* The function savePage passes to db.Update, run on the transaction's copy s:
\* CreateBucketIfNotExists (an empty name is an error), NextSequence, Put (or
\* its error, putFails).  err tells whether it returned an error; s is the
\* copy as the function left it, id the sequence number it drew.
savePageTx(s, title, pageBytes, putFails) ==
    IF title = "" THEN [err |-> TRUE, s |-> s, id |-> 0]
    ELSE LET s1 == [s EXCEPT !.b[title] = IF @.exists THEN @ ELSE NewBucket]
             id == NextSequence(s1.b[title].sequence)
             s2 == [s1 EXCEPT !.b[title].sequence = id]
             s3 == [s2 EXCEPT !.b[title] = BucketPut(@, byteID(id), pageBytes)]
         IN  IF putFails THEN [err |-> TRUE, s |-> s2, id |-> id]
             ELSE [err |-> FALSE, s |-> s3, id |-> id]

\* Mutant of LockFree: a write transaction begins whoever holds the lock.
LockFreeIgnored == TRUE

\* db.Update waits for the writer lock; no second writer takes it.
LockFree == wlock = NoProc

\* While a save request waits in db.Update for the writer lock another
\* request holds, the time of Options.Timeout (1 second) passes.  db.Update
\* has no timer: the request goes on waiting.
AcquireTimeoutElapses(p) ==
    /\ Quiet
    /\ mainpc = "serve"
    /\ wr[p].pc = "update"
    /\ ~LockFree
    /\ ~wr[p].waited
    /\ wr' = [wr EXCEPT ![p].waited = TRUE]
    /\ UNCHANGED <<mainpc, db, wlock, rd, resp, appended, nsaves>>

\* Mutant of Unlock: the end of the transaction leaves the lock held.
UnlockForgotten(p) == wlock

\* The writer lock after p's write transaction has ended.
Unlock(p) == IF wlock = p THEN NoProc ELSE wlock

\* What the end of a write transaction does to a reader's byte slice: pages
\* the reader's closed transaction used may be reused or unmapped.
Invalidate(r) == IF r.pc = "decode" THEN [r EXCEPT !.stale = TRUE] ELSE r

\* saveHandler's answer to a save request: the error page when savePage
\* returned an error, and the redirect to /view/.
SaveResp(p, ret) ==
    [NoResp EXCEPT !.op = "save", !.title = wr[p].title, !.called = TRUE,
                   !.id = wr[p].id, !.kind = ret, !.page = wr[p].page,
                   !.waited = wr[p].waited]

\* Mutant of RolledBack: what the function did to the copy is kept.
RolledBackKeepsCopy(committed, s) == s

\* The store after a write transaction is rolled back: nothing of the copy s
\* the function worked on is kept.
RolledBack(committed, s) == committed

\* db.Update takes the writer lock, begins the write transaction on a copy of
\* the committed state and runs the function.  When the function returns an
\* error the transaction is rolled back and savePage returns the error.
UpdateRun(p) ==
    /\ Quiet
    /\ mainpc = "serve"
    /\ wr[p].pc = "update"
    /\ LockFree
    /\ \E putFails \in BOOLEAN :
          LET r == savePageTx(db, wr[p].title, wr[p].pageBytes, putFails)
          IN  IF r.err
              THEN /\ db' = RolledBack(db, r.s)
                   /\ wlock' = wlock
                   /\ wr' = [wr EXCEPT ![p] = IdleWriter]
                   /\ resp' = [SaveResp(p, "err") EXCEPT !.id = r.id]
              ELSE /\ db' = db
                   /\ wlock' = p
                   /\ wr' = [wr EXCEPT ![p].pc = "commit", ![p].tx = r.s, ![p].id = r.id]
                   /\ resp' = resp
    /\ UNCHANGED <<mainpc, rd, appended, nsaves>>

\* The function returned nil: db.Update commits, publishing the copy, or the
\* commit fails and the transaction is rolled back.  The lock is released.
TxCommit(p) ==
    /\ Quiet
    /\ mainpc = "serve"
    /\ wr[p].pc = "commit"
    /\ \/ /\ db' = wr[p].tx
          /\ appended' = [appended EXCEPT ![wr[p].title] =
                             Append(@, [id |-> wr[p].id, page |-> wr[p].page])]
          /\ resp' = SaveResp(p, "ok")
       \/ /\ db' = RolledBack(db, wr[p].tx)
          /\ appended' = appended
          /\ resp' = SaveResp(p, "err")
    /\ wlock' = Unlock(p)
    /\ wr' = [wr EXCEPT ![p] = IdleWriter]
    /\ rd' = Invalidate(rd)
    /\ UNCHANGED <<mainpc, nsaves>>

\* ------------------------------------------------------------- view
\* Mutant of ReadTx: a read transaction sees the working copy of the write
\* transaction that is open.
ReadTxDirty ==
    IF \E p \in Writers : wr[p].pc = "commit"
    THEN wr[CHOOSE p \in Writers : wr[p].pc = "commit"].tx
    ELSE db

\* The store a read transaction (db.View) works on: the committed state as of
\* its start, whatever a write transaction open at that time has done.
ReadTx == db

\* The rev values a view request can carry.
RevParams == {RevAbsent, RevUnparseable} \cup (0..MaxId)

\* viewHandler up to the return of db.View inside loadPageRev.  An unparseable
\* rev is answered 404 at once; an error of loadPageRev is answered 404 when
\* rev was given and a redirect to /edit/ when it was not.
ViewHandler(title, rev) ==
    /\ Quiet
    /\ mainpc = "serve"
    /\ rd.pc = "idle"
    /\ LET id == IF rev = RevAbsent THEN 0 ELSE rev
           v == loadPageRevView(ReadTx, title, id)
           at == IF title \in BucketTitles THEN Len(appended[title]) ELSE 0
           r == [NoResp EXCEPT !.op = "view", !.title = title, !.arg = rev]
       IN  IF rev = RevUnparseable
           THEN /\ resp' = [r EXCEPT !.kind = "notfound"]
                /\ rd' = rd
           ELSE IF v.err
           THEN /\ resp' = [r EXCEPT !.called = TRUE, !.id = id, !.at = at,
                               !.kind = IF rev = RevAbsent THEN "redirect" ELSE "notfound"]
                /\ rd' = rd
           ELSE /\ rd' = [pc |-> "decode", title |-> title, rev |-> rev, id |-> id,
                          key |-> v.key, pageBytes |-> v.pageBytes, stale |-> FALSE,
                          at |-> at]
                /\ resp' = resp
    /\ UNCHANGED <<mainpc, db, wlock, wr, appended, nsaves>>

\* What the slice pageBytes can hold when fromBytes reads it after db.View has
\* returned: the value read while no write transaction has ended since; after
\* one has, also other stored bytes or bytes that are no gob stream.
StoredBytes(s) == UNION {{s.b[t].kv[k] : k \in Keys(s.b[t])} : t \in BucketTitles}

ReadableBytes(r) ==
    IF r.stale THEN {r.pageBytes, Garbage} \cup StoredBytes(db) ELSE {r.pageBytes}

\* loadPageRev after db.View: page := &Page{}; fromBytes(pageBytes, page), and
\* viewHandler renders the page.
ViewDecode ==
    /\ Quiet
    /\ mainpc = "serve"
    /\ rd.pc = "decode"
    /\ \E bs \in ReadableBytes(rd) :
          resp' = [NoResp EXCEPT !.op = "view", !.title = rd.title, !.arg = rd.rev,
                      !.called = TRUE, !.id = rd.id, !.kind = "page",
                      !.page = fromBytes(bs, ZeroPage), !.key = rd.key, !.at = rd.at,
                      !.stale = rd.stale]
    /\ rd' = IdleReader
    /\ UNCHANGED <<mainpc, db, wlock, wr, appended, nsaves>>

\* Reading a slice whose pages were unmapped is a fault that ends the process.
ViewFault ==
    /\ Quiet
    /\ mainpc = "serve"
    /\ rd.pc = "decode"
    /\ rd.stale
    /\ resp' = [NoResp EXCEPT !.op = "view", !.title = rd.title, !.arg = rd.rev,
                   !.called = TRUE, !.id = rd.id, !.kind = "fault", !.key = rd.key,
                   !.at = rd.at, !.stale = TRUE]
    /\ mainpc' = "boot"
    /\ wlock' = NoProc
    /\ wr' = [p \in Writers |-> IdleWriter]
    /\ rd' = IdleReader
    /\ UNCHANGED <<db, appended, nsaves>>

\* ------------------------------------------------------------- history
\* The from values strconv.Atoi can give, and -1 with its error.
FromParams == (-2)..MaxId

FromQueries == {[ok |-> TRUE, n |-> f] : f \in FromParams} \cup {[ok |-> FALSE, n |-> 0]}

\* historyHandler: from = -1 when Atoi fails; an error of loadHistory gives an
\* empty page.
HistoryHandler(title, fq) ==
    /\ Quiet
    /\ mainpc = "serve"
    /\ rd.pc = "idle"
    /\ LET from == IF fq.ok THEN fq.n ELSE -1
           h == loadHistory(ReadTx, title, from, HistoryPageSize)
       IN  resp' = [NoResp EXCEPT !.op = "history", !.title = title, !.arg = from,
                       !.n = HistoryPageSize, !.called = TRUE, !.kind = "history",
                       !.Revs = IF h.err THEN <<>> ELSE h.Revs,
                       !.at = IF title \in BucketTitles THEN Len(appended[title]) ELSE 0]
    /\ UNCHANGED <<mainpc, db, wlock, wr, rd, appended, nsaves>>

\* loadHistory called with any page size.
LoadHistory(title, from, n) ==
    /\ Quiet
    /\ mainpc = "serve"
    /\ rd.pc = "idle"
    /\ LET h == loadHistory(ReadTx, title, from, n)
       IN  resp' = [NoResp EXCEPT !.op = "loadHistory", !.title = title, !.arg = from,
                       !.n = n, !.called = TRUE,
                       !.kind = IF h.err THEN "notfound" ELSE "ok",
                       !.Revs = h.Revs,
                       !.at = IF title \in BucketTitles THEN Len(appended[title]) ELSE 0]
    /\ UNCHANGED <<mainpc, db, wlock, wr, rd, appended, nsaves>>

\* ------------------------------------------------------------- specification
\* The answer of the last request is taken; the next step follows.
Answered ==
    /\ resp # NoResp
    /\ resp' = NoResp
    /\ UNCHANGED <<mainpc, db, wlock, wr, rd, appended, nsaves>>

\* One save request at a time, with every read.
Next ==
    \/ Answered
    \/ Bootstrap
    \/ Restart
    \/ \E t \in Titles, c \in Contents : nsaves < MaxSaves /\ SaveHandler("w1", t, c)
    \/ UpdateRun("w1")
    \/ TxCommit("w1")
    \/ \E t \in Titles, rev \in RevParams : ViewHandler(t, rev)
    \/ ViewDecode
    \/ ViewFault
    \/ \E t \in Titles, fq \in FromQueries : HistoryHandler(t, fq)
    \/ \E t \in Titles, from \in FromParams, n \in 1..MaxLimit : LoadHistory(t, from, n)

Spec == Init /\ [][Next]_vars

\* Save requests running at once, with the view requests.
NextConc ==
    \/ Answered
    \/ Bootstrap
    \/ Restart
    \/ \E p \in Writers, t \in Titles, c \in Contents :
          nsaves < MaxConcSaves /\ SaveHandler(p, t, c)
    \/ \E p \in Writers : UpdateRun(p)
    \/ \E p \in Writers : TxCommit(p)
    \/ \E t \in Titles, rev \in RevParams : ViewHandler(t, rev)
    \/ ViewDecode
    \/ ViewFault

SpecConc == Init /\ [][NextConc]_vars

\* Save requests alone, two at once, with the time they wait for the lock.
NextWait ==
    \/ Answered
    \/ Bootstrap
    \/ \E p \in Writers, t \in Titles, c \in Contents :
          nsaves < MaxConcSaves /\ SaveHandler(p, t, c)
    \/ \E p \in Writers : UpdateRun(p)
    \/ \E p \in Writers : TxCommit(p)
    \/ \E p \in Writers : AcquireTimeoutElapses(p)

\* A handler that can go on does: main gets to serve, a rendered answer is
\* sent, the commit of a write transaction ends, and the lock, when released
\* again and again, is given to a request that waits for it (sync.Mutex hands
\* the lock over to a goroutine that has waited).
SpecWait ==
    /\ Init
    /\ [][NextWait]_vars
    /\ WF_vars(Answered)
    /\ WF_vars(Bootstrap)
    /\ \A p \in Writers : SF_vars(UpdateRun(p)) /\ SF_vars(TxCommit(p))

\* The files whisky.db the release before this one can have left: its save
\* stored p.Body itself, no gob stream, under the same buckets and keys.  A
\* title's bucket holds the keys 1..n, each value either such a body or a
\* payload this release wrote.
OldPayloads == {Garbage, toBytes(MkPage("A", <<104>>, 1, "u"))}

LeftFiles ==
    { [hist |-> TRUE,
       b |-> [t \in BucketTitles |->
                IF t = "A"
                THEN [exists |-> TRUE, sequence |-> Len(vs),
                      kv |-> [k \in {byteID(i) : i \in 1..Len(vs)} |-> vs[Uint64(k)]]]
                ELSE NoBucket]] :
      vs \in UNION {[1..n -> OldPayloads] : n \in 1..MaxLeft} }

\* main starts on a file that is already there.
InitStored ==
    /\ mainpc = "boot"
    /\ db \in LeftFiles
    /\ wlock = NoProc
    /\ wr = [p \in Writers |-> IdleWriter]
    /\ rd = IdleReader
    /\ resp = NoResp
    /\ appended = [t \in BucketTitles |-> <<>>]
    /\ nsaves = 0

\* The reads, on such a file.
NextStored ==
    \/ Answered
    \/ Bootstrap
    \/ Restart
    \/ \E t \in Titles, rev \in RevParams : ViewHandler(t, rev)
    \/ ViewDecode
    \/ \E t \in Titles, fq \in FromQueries : HistoryHandler(t, fq)
    \/ \E t \in Titles, from \in FromParams, n \in 1..MaxLimit : LoadHistory(t, from, n)

SpecStored == InitStored /\ [][NextStored]_vars

\* ------------------------------------------------------------- claims
Min(a, b) == IF a <= b THEN a ELSE b

\* The sequence numbers of a page, in the order listed.
Nums(revs) == [i \in 1..Len(revs) |-> revs[i].Num]

\* <<hi, hi-1, ..., lo>>
Down(hi, lo) == [i \in 1..(hi - lo + 1) |-> hi - i + 1]

\* Number of Appends to title t that returned nil so far.
Count(t) == IF t \in BucketTitles THEN Len(appended[t]) ELSE 0

\* C1: ReadLatest(T) (loadPageRev with id 0) performed after the Nth Append to
\* T returns exactly the page given to the Nth Append.
C1_ReadLatestReturnsNth ==
    (resp.op = "view" /\ resp.called /\ resp.id = 0 /\ resp.at >= 1)
        => /\ resp.kind = "page"
           /\ resp.page = appended[resp.title][resp.at].page

\* C2: ReadRevision(T, k) (loadPageRev with id k), 1 <= k <= N, returns the
\* page given to the kth Append unchanged, also after later Appends.
C2_ReadRevisionReturnsKth ==
    (resp.op = "view" /\ resp.called /\ resp.id >= 1 /\ resp.id <= resp.at)
        => /\ resp.kind = "page"
           /\ resp.page = appended[resp.title][resp.id].page

\* A view whose bytes are decoded before any write transaction ends returns
\* the page that was appended under the number read, and decoding into a
\* fresh Page what toBytes gives of a page a request can save gives that page.
ReadsOfLiveBytesAreExact ==
    /\ (resp.op = "view" /\ resp.kind = "page" /\ ~resp.stale)
          => /\ resp.at >= 1
             /\ resp.page = appended[resp.title][IF resp.id = 0 THEN resp.at
                                                   ELSE resp.id].page
    /\ \A t \in Titles, c \in Contents :
          LET x == MkPage(t, c.Body, c.Created, c.Author)
          IN  fromBytes(toBytes(x), ZeroPage) = x

\* C3: the Appends to one title that returned nil drew, in commit order, the
\* sequence numbers 1, 2, 3, ...: each a distinct number, the M Appends after
\* the Pth exactly P+1 .. P+M, however the callers interleave.
C3_ConcurrentAppendsDistinct ==
    \A t \in BucketTitles : \A i \in 1..Len(appended[t]) : appended[t][i].id = i

\* C3 witness: an Append committed number 2 for a title with a revision
\* already there while the other caller's Append to the same title was waiting.
C3_Witness ==
    /\ resp.op = "save" /\ resp.kind = "ok" /\ resp.id = 2
    /\ \E p \in Writers : wr[p].pc = "update" /\ wr[p].title = resp.title

\* The store after one Append of page x under number id to title t.
WithRevision(s, t, id, x) ==
    /\ t \in BucketTitles
    /\ id >= 1
    /\ byteID(id) \notin Keys(SubBucket(s, t))
    /\ db' = [s EXCEPT !.b[t] = [exists |-> TRUE, sequence |-> id,
                                 kv |-> [k \in Keys(SubBucket(s, t)) \cup {byteID(id)} |->
                                           IF k = byteID(id) THEN toBytes(x)
                                           ELSE s.b[t].kv[k]]]]

\* C4: an Append that returns an error leaves the store as it was (no counter
\* advanced, no key stored); one that returns nil has stored exactly one new
\* revision, under a non-zero sequence number.
C4_AppendAllOrNothing ==
    [][\A p \in Writers :
          (wr[p].pc \in {"update", "commit"} /\ wr'[p].pc = "idle" /\ mainpc' = "serve")
              => /\ resp'.op = "save"
                 /\ \/ resp'.kind = "err" /\ db' = db
                    \/ /\ resp'.kind = "ok"
                       /\ WithRevision(db, wr[p].title, resp'.id, wr[p].page)]_vars

\* C4 witness: the first Append to a title drew number 1 inside its
\* transaction and returned an error; the title has no bucket.
C4_Witness ==
    /\ resp.op = "save" /\ resp.kind = "err" /\ resp.id = 1
    /\ resp.title \in BucketTitles
    /\ ~db.b[resp.title].exists

\* C5: loadHistory(T, -1, L) on a title with N >= 1 revisions returns
\* min(L, N) entries numbered N, N-1, ..., N-min(L,N)+1.
C5_LatestPageDescends ==
    (resp.op \in {"loadHistory", "history"} /\ resp.arg = -1 /\ resp.at >= 1)
        => /\ resp.kind \in {"ok", "history"}
           /\ Nums(resp.Revs) = Down(resp.at, resp.at - Min(resp.n, resp.at) + 1)

\* C5 witness: a page of 2 from the latest of 3 revisions.
C5_Witness ==
    /\ resp.op = "loadHistory" /\ resp.arg = -1 /\ resp.n = 2 /\ resp.at = 3
    /\ Nums(resp.Revs) = <<3, 2>>

\* The sequence numbers listed by the pages that start at from and go on, each
\* from the number below the last entry of the page before, on store s.
RECURSIVE Pages(_, _, _, _, _)
Pages(s, t, from, n, fuel) ==
    LET h == loadHistory(s, t, from, n)
        nums == Nums(h.Revs)
    IN  IF h.err \/ fuel = 0 THEN <<>>
        ELSE IF nums[Len(nums)] <= 1 THEN nums
        ELSE nums \o Pages(s, t, nums[Len(nums)] - 1, n, fuel - 1)

\* C6: a page that ends at s > 1 is followed, from s-1, by a page that starts
\* at s-1, and the page with the pages that follow it this way lists every
\* number from its first down to 1 once: N..1 from the latest, for every page
\* size and every start.
C6_PaginationResumable ==
    (resp.op = "loadHistory" /\ resp.kind = "ok")
        => LET nums == Nums(resp.Revs)
               s == nums[Len(nums)]
               next == loadHistory(db, resp.title, s - 1, resp.n)
           IN  /\ resp.arg = -1 => nums[1] = Count(resp.title)
               /\ s > 1 => ~next.err /\ next.Revs[1].Num = s - 1
               /\ Pages(db, resp.title, resp.arg, resp.n, nums[1]) = Down(nums[1], 1)

\* C6 witness: the page asked from 1 after the page <<3, 2>> of size 2.
C6_Witness ==
    /\ resp.op = "loadHistory" /\ resp.arg = 1 /\ resp.n = 2 /\ resp.at = 3
    /\ Nums(resp.Revs) = <<1>>
    /\ Nums(loadHistory(db, resp.title, -1, 2).Revs) = <<3, 2>>

\* Store s with an empty bucket in the place of title t's.
WithEmptyBucket(s, t) == IF t \in BucketTitles THEN [s EXCEPT !.b[t] = NewBucket] ELSE s

\* C7: on a title never appended to, loadPageRev (id 0 or k) and loadHistory
\* (any from, any n) fail with "page not exists" and give no page; the same
\* request fails the same way when the title's bucket exists and is empty.
C7_NeverAppendedNotFound ==
    (resp.called /\ resp.at = 0 /\ resp.op \in {"view", "loadHistory", "history"})
        => /\ resp.op = "view"
                => /\ resp.kind \in {"notfound", "redirect"} /\ resp.page = ZeroPage
                   /\ loadPageRevView(WithEmptyBucket(db, resp.title), resp.title, resp.id).err
           /\ resp.op = "loadHistory" => resp.kind = "notfound"
           /\ resp.op # "view"
                => /\ resp.Revs = <<>>
                   /\ loadHistory(WithEmptyBucket(db, resp.title), resp.title, resp.arg, resp.n).err

\* C7 witness: loadHistory from the latest failed on a title without
\* revisions while the other title has some.
C7_Witness ==
    /\ resp.op = "loadHistory" /\ resp.arg = -1 /\ resp.kind = "notfound"
    /\ resp.title \in BucketTitles /\ resp.at = 0
    /\ \E t \in BucketTitles : Count(t) >= 1

\* C8: loadPageRev(T, k) on a title with revisions fails with "page not
\* exists" when k is above every number issued; no page is returned.
C8_MissingRevisionNotFound ==
    (resp.op = "view" /\ resp.called /\ resp.at >= 1 /\ resp.id > resp.at)
        => resp.kind = "notfound" /\ resp.page = ZeroPage

\* C8 witness: revision 3 asked of a title with 2 revisions.
C8_Witness ==
    /\ resp.op = "view" /\ resp.called /\ resp.at = 2 /\ resp.id = 3
    /\ resp.kind = "notfound"

\* C9: loadHistory with an explicit from fails unless a revision with that
\* very number exists (from = 0, from above N, a negative from other than
\* -1), and a page it does return starts at from itself.
C9_ExplicitFromExact ==
    (resp.op \in {"loadHistory", "history"} /\ resp.arg # -1)
        => IF resp.arg \in 1..resp.at
           THEN resp.kind \in {"ok", "history"} /\ resp.Revs[1].Num = resp.arg
           ELSE resp.kind \in {"notfound", "history"} /\ resp.Revs = <<>>

\* C9 witness: from = 0 on a title with revisions: Seek lands on key 1.
C9_Witness ==
    /\ resp.op = "loadHistory" /\ resp.arg = 0 /\ resp.at >= 1
    /\ resp.kind = "notfound"
    /\ CursorSeek(SubBucket(db, resp.title), PutUint64(0)) = byteID(1)

\* C10: a view request with rev=0 is rejected at viewHandler: it is answered
\* as invalid, no entry of the store is read for it and no page is returned.
C10_RevZeroRejected ==
    (resp.op = "view" /\ resp.arg = 0)
        => resp.kind = "notfound" /\ resp.key = Nil /\ resp.page = ZeroPage

\* C10, amended: a view request with rev=0 is not rejected: viewHandler calls
\* loadPageRev with id 0, which reads the title's last key as a request
\* without rev does; it is answered 404 only when the title has no revision.
C10_RevZeroReadsLatest ==
    (resp.op = "view" /\ resp.arg = 0)
        => /\ resp.called /\ resp.id = 0
           /\ IF resp.at = 0 THEN resp.kind = "notfound"
              ELSE resp.kind \in {"page", "fault"} /\ resp.key = PutUint64(resp.at)

\* C10 witness: rev=0 answered with the second, latest, revision.
C10_Witness ==
    /\ resp.op = "view" /\ resp.arg = 0 /\ resp.kind = "page" /\ resp.at = 2
    /\ ~resp.stale
    /\ resp.page = appended[resp.title][2].page

\* The payload stored under number num of title t.
Payload(t, num) == db.b[t].kv[byteID(num)]

\* The payloads a history answer went over.
HistoryPayloads == {Payload(resp.title, resp.Revs[i].Num) : i \in 1..Len(resp.Revs)}

\* C11: a read that touches a stored payload that is no encoding of a Page
\* fails: loadPageRev returns no page for it, and loadHistory returns no page
\* of revisions that lists it.
C11_CorruptReadFails ==
    /\ (resp.op = "view" /\ resp.key # Nil /\ ~Payload(resp.title, Uint64(resp.key)).gob)
          => resp.kind \notin {"page", "redirect"}
    /\ (resp.op \in {"loadHistory", "history"})
          => \A bs \in HistoryPayloads : bs.gob

\* C12: no step removes a stored revision or changes the payload stored under
\* a key, and no step removes a title's bucket; the keys of a title change
\* only by one key added, by an Append that returned nil.
C12_RevisionsOnlyAppended ==
    [][\A t \in BucketTitles :
          /\ db.b[t].exists => db'.b[t].exists
          /\ Keys(db.b[t]) \subseteq Keys(db'.b[t])
          /\ \A k \in Keys(db.b[t]) : db'.b[t].kv[k] = db.b[t].kv[k]
          /\ Keys(db'.b[t]) # Keys(db.b[t])
                => /\ Cardinality(Keys(db'.b[t])) = Cardinality(Keys(db.b[t])) + 1
                   /\ resp'.op = "save" /\ resp'.kind = "ok" /\ resp'.title = t]_vars

\* C12 witness: a second, different, page was appended to a title and the
\* first is still stored under key 1.
C12_Witness ==
    /\ resp.op = "save" /\ resp.kind = "ok" /\ resp.id = 2
    /\ appended[resp.title][1].page # appended[resp.title][2].page
    /\ Payload(resp.title, 1) = toBytes(appended[resp.title][1].page)
    /\ Payload(resp.title, 2) = toBytes(appended[resp.title][2].page)

\* A write transaction is open on title t: its function has run, its commit
\* has not.
AppendOpen(t) == \E p \in Writers : wr[p].pc = "commit" /\ wr[p].title = t

C15_KeysAreOneToN ==
    /\ \A t \in BucketTitles :
          /\ Keys(db.b[t]) = {byteID(i) : i \in 1..Len(appended[t])}
          /\ byteID(0) \notin Keys(db.b[t])
          /\ db.b[t].sequence = Len(appended[t])
          /\ Keys(db.b[t]) # {} => Uint64(CursorLast(db.b[t])) = db.b[t].sequence
    /\ (resp.op = "save" /\ resp.kind = "ok") => resp.id = Len(appended[resp.title])

\* C15 witness: three Appends to one title returned nil; the third drew 3.
C15_Witness ==
    /\ resp.op = "save" /\ resp.kind = "ok" /\ resp.id = 3
    /\ Keys(db.b[resp.title]) = {byteID(1), byteID(2), byteID(3)}
    /\ db.b[resp.title].sequence = 3

\* C16: every Revision of a history page carries the Created and the Author
\* of the page appended under the Revision's own number, a zero Created or an
\* empty Author included.
C16_HistoryOwnFields ==
    (resp.op \in {"loadHistory", "history"})
        => \A i \in 1..Len(resp.Revs) :
              /\ resp.Revs[i].Created = appended[resp.title][resp.Revs[i].Num].page.Created
              /\ resp.Revs[i].Author = appended[resp.title][resp.Revs[i].Num].page.Author

\* C17: a step changes the bucket of a title (its keys, payloads or counter)
\* only as the Append to that very title that then returns nil; the buckets
\* of all other titles are as they were.
C17_AppendTouchesOneTitle ==
    [][\A t \in BucketTitles :
          db'.b[t] # db.b[t]
              => resp'.op = "save" /\ resp'.kind = "ok" /\ resp'.title = t]_vars

\* C17 witness: Appends to two titles, from two callers, have committed; each
\* title is numbered from 1 on its own.
C17_Witness ==
    /\ resp.op = "save" /\ resp.kind = "ok" /\ resp.id = 2
    /\ \E t \in BucketTitles \ {resp.title} :
          /\ Keys(db.b[t]) = {byteID(1)} /\ db.b[t].sequence = 1
    /\ Keys(db.b[resp.title]) = {byteID(1), byteID(2)}

\* C18: the bootstrap transaction, run on an empty file or, after any number
\* of restarts, on a file with titles and revisions, leaves the bucket
\* "history" present and every title with exactly the revisions appended to
\* it and its counter; running it once more changes nothing, and the reads
\* find for every title what was appended.
C18_BootstrapIdempotent ==
    (resp.op = "boot")
        => /\ db.hist
           /\ bootstrapTx(db) = db
           /\ \A t \in BucketTitles :
                 /\ db.b[t].exists <=> Len(appended[t]) >= 1
                 /\ db.b[t].sequence = Len(appended[t])
                 /\ Keys(db.b[t]) = {byteID(i) : i \in 1..Len(appended[t])}
                 /\ \A i \in 1..Len(appended[t]) :
                       /\ Payload(t, i) = toBytes(appended[t][i].page)
                       /\ loadPageRevView(db, t, i).pageBytes = toBytes(appended[t][i].page)
                 /\ Len(appended[t]) >= 1
                       => /\ loadPageRevView(db, t, 0).key = byteID(Len(appended[t]))
                          /\ Nums(loadHistory(db, t, -1, HistoryPageSize).Revs)
                                = Down(Len(appended[t]), 1)

\* C18 witness: main ran the bootstrap again, after a restart, on a file in
\* which "history" was there and a title had two revisions.
C18_Witness ==
    /\ resp.op = "boot" /\ resp.called
    /\ \E t \in BucketTitles : Keys(db.b[t]) = {byteID(1), byteID(2)}

====
